---- MODULE Spec2Model ----
(***************************************************************************)
(* A model of eda_utils.py: bar_plot_top_n, map_to_coarse_category and     *)
(* extract_city_from_store.                                                *)
(*                                                                         *)
(* Every Python value that may be None / NaN is an option: NA (the empty   *)
(* sequence) when missing, <<x>> when present.  A string that the code     *)
(* splits or strips is a sequence of one-character strings.  An aggregated *)
(* value is NA (a float NaN) or a fraction <<num, den>> with den >= 1, so  *)
(* a mean is exact.                                                        *)
(***************************************************************************)
EXTENDS Integers, Sequences, FiniteSets, TLC

VARIABLES data, args, pc, raised, grouped_data, chart, ret

vars == <<data, args, pc, raised, grouped_data, chart, ret>>

(* ------------------------------ bounds -------------------------------- *)

\* Longest dataset (rows).
MaxRows == 3
\* Largest top_n.
MaxTopN == 2
\* Longest store name (characters).
MaxLen == 4
\* Longest list of detailed categories.
MaxList == 2

(* --------------------------- missing values --------------------------- *)

NA == <<>>

Some(x) == <<x>>

\* pd.isna on a scalar: None and NaN are missing.
isna(c) == c = NA

Min(a, b) == IF a <= b THEN a ELSE b

Max(a, b) == IF a >= b THEN a ELSE b

Range(s) == {s[i] : i \in 1..Len(s)}

RECURSIVE Reverse(_)
Reverse(s) == IF s = <<>> THEN <<>> ELSE Append(Reverse(Tail(s)), Head(s))

(* ------------------------------ frames -------------------------------- *)
(* A DataFrame: the names of its index levels (<<>> for the default       *)
(* RangeIndex), the names of its columns, and its rows, each a function   *)
(* from every name (level or column) to a cell.                           *)

IsMultiIndex(d) == Len(d.index) > 1

HasColumn(df, col) == \E i \in 1..Len(df.columns) : df.columns[i] = col

\* df[col]: the cells of one column, in row order.
Column(df, col) == [i \in 1..Len(df.rows) |-> df.rows[i][col]]

\* reset_index(inplace=True): the caller's object itself is flattened.
reset_index_inplace(d) ==
  LET flat == [index |-> <<>>, columns |-> d.index \o d.columns, rows |-> d.rows]
  IN  [self |-> flat, result |-> flat]

\* data.reset_index(): the caller's object as the call leaves it, and the
\* frame returned, whose index levels have become the first columns.
reset_index(d) ==
  [self |-> d,
   result |-> [index |-> <<>>, columns |-> d.index \o d.columns, rows |-> d.rows]]

\* data.copy(): the caller's object as the call leaves it, and the copy.
copy(d) == [self |-> d, result |-> [index |-> d.index, columns |-> d.columns, rows |-> d.rows]]

\* The index is never flattened: df = data.copy() whatever the index.
Flatten_copy_only(d) == copy(d)

\* Lines 35-38: the working copy df.
Flatten(d) == IF IsMultiIndex(d) THEN reset_index(d) ELSE copy(d)

(* ---------------------------- aggregation ----------------------------- *)

dropna(s) == SelectSeq(s, LAMBDA c : ~isna(c))

RECURSIVE Unique(_)
\* The distinct elements of s in order of first appearance.
Unique(s) ==
  IF s = <<>> THEN <<>>
  ELSE LET u == Unique(SubSeq(s, 1, Len(s) - 1))
           x == s[Len(s)]
       IN  IF x \in Range(u) THEN u ELSE Append(u, x)

RECURSIVE SortedKeys(_)
\* The keys of a groupby (sort=True): the present values, ascending.
SortedKeys(S) ==
  IF S = {} THEN <<>>
  ELSE LET m == CHOOSE a \in S : \A b \in S : a[1] <= b[1]
       IN  <<m>> \o SortedKeys(S \ {m})

RECURSIVE SumCells(_)
SumCells(s) == IF s = <<>> THEN 0 ELSE Head(s)[1] + SumCells(Tail(s))

Recognized == {"sum", "mean", "count", "nunique"}

\* Series.agg(agg_func) on one group's cells; missing cells are skipped.
Agg(agg_func, cells) ==
  LET present == dropna(cells)
  IN  CASE agg_func = "sum" -> <<SumCells(present), 1>>
        [] agg_func = "count" -> <<Len(present), 1>>
        [] agg_func = "nunique" -> <<Cardinality(Range(present)), 1>>
        [] agg_func = "mean" ->
             IF present = <<>> THEN NA ELSE <<SumCells(present), Len(present)>>

\* a <= b on aggregated values that are present.
Leq(a, b) == a[1] * b[2] <= b[1] * a[2]

RECURSIVE InsertAsc(_, _)
\* Insert e after every element not greater than it (a stable insertion).
InsertAsc(s, e) ==
  IF s = <<>> THEN <<e>>
  ELSE IF Leq(s[Len(s)].val, e.val) THEN Append(s, e)
  ELSE Append(InsertAsc(SubSeq(s, 1, Len(s) - 1), e), s[Len(s)])

RECURSIVE StableAsc(_)
StableAsc(s) ==
  IF s = <<>> THEN <<>>
  ELSE InsertAsc(StableAsc(SubSeq(s, 1, Len(s) - 1)), s[Len(s)])

\* sort_values() with the default ascending=True.
sort_values_asc(s) ==
  LET non_nans == SelectSeq(s, LAMBDA e : ~isna(e.val))
      nans == SelectSeq(s, LAMBDA e : isna(e.val))
  IN  StableAsc(non_nans) \o nans

\* Series.sort_values(ascending=False): the present values are reversed,
\* sorted ascending and reversed again; the missing ones go last.
sort_values_desc(s) ==
  LET non_nans == SelectSeq(s, LAMBDA e : ~isna(e.val))
      nans == SelectSeq(s, LAMBDA e : isna(e.val))
  IN  Reverse(StableAsc(Reverse(non_nans))) \o nans

\* head(top_n - 1): one entry short.
head_short(s, n) == SubSeq(s, 1, Min(n - 1, Len(s)))

\* Series.head(n).
head(s, n) ==
  IF n >= 0 THEN SubSeq(s, 1, Min(n, Len(s)))
  ELSE SubSeq(s, 1, Max(Len(s) + n, 0))

\* value_counts(sort=False): the counts in order of first appearance.
value_counts_unsorted(s) ==
  LET keys == Unique(dropna(s))
      n(k) == Len(SelectSeq(s, LAMBDA c : c = k))
  IN  [i \in 1..Len(keys) |-> [key |-> keys[i], val |-> <<n(keys[i]), 1>>]]

\* Series.value_counts(): one entry per present value, in order of first
\* appearance, then sorted by count descending.
value_counts(s) ==
  LET keys == Unique(dropna(s))
      n(k) == Len(SelectSeq(s, LAMBDA c : c = k))
  IN  sort_values_desc([i \in 1..Len(keys) |-> [key |-> keys[i], val |-> <<n(keys[i]), 1>>]])

\* df.groupby(group_by_col)[value_col].agg(agg_func): one entry per present
\* key, in ascending key order.
groupby_agg(df, group_by_col, value_col, agg_func) ==
  LET keys == SortedKeys(Range(dropna(Column(df, group_by_col))))
      cells(k) ==
        LET rs == SelectSeq(df.rows, LAMBDA r : r[group_by_col] = k)
        IN  [i \in 1..Len(rs) |-> rs[i][value_col]]
  IN  [i \in 1..Len(keys) |-> [key |-> keys[i], val |-> Agg(agg_func, cells(keys[i]))]]

\* An unrecognized agg_func falls back to the default "sum" instead of raising.
Aggregate_fallback(df, a) ==
  IF isna(a.value_col)
  THEN IF ~HasColumn(df, a.group_by_col)
       THEN [raised |-> "KeyError", grouped |-> <<>>]
       ELSE [raised |-> "none",
             grouped |-> head(value_counts(Column(df, a.group_by_col)), a.top_n)]
  ELSE IF ~HasColumn(df, a.group_by_col) \/ ~HasColumn(df, a.value_col[1])
       THEN [raised |-> "KeyError", grouped |-> <<>>]
       ELSE [raised |-> "none",
             grouped |-> head(sort_values_desc(
                           groupby_agg(df, a.group_by_col, a.value_col[1],
                             IF a.agg_func \in Recognized THEN a.agg_func ELSE "sum")),
                           a.top_n)]

\* Lines 41-55: the retained groups, or the exception raised: KeyError for a
\* column the frame has not, AttributeError for an agg_func pandas has no
\* aggregation for (the "unsupported aggregation" failure).
Aggregate(df, a) ==
  IF isna(a.value_col)
  THEN IF ~HasColumn(df, a.group_by_col)
       THEN [raised |-> "KeyError", grouped |-> <<>>]
       ELSE [raised |-> "none",
             grouped |-> head(value_counts(Column(df, a.group_by_col)), a.top_n)]
  ELSE IF ~HasColumn(df, a.group_by_col) \/ ~HasColumn(df, a.value_col[1])
       THEN [raised |-> "KeyError", grouped |-> <<>>]
       ELSE IF a.agg_func \notin Recognized
       THEN [raised |-> "AttributeError", grouped |-> <<>>]
       ELSE [raised |-> "none",
             grouped |-> head(sort_values_desc(
                           groupby_agg(df, a.group_by_col, a.value_col[1], a.agg_func)),
                           a.top_n)]

(* ------------------------------- labels ------------------------------- *)

\* Lines 46-47 and 57-58.
XLabel(a) ==
  IF a.xlabel # NA THEN a.xlabel[1]
  ELSE IF isna(a.value_col) THEN "Count"
  ELSE a.value_col[1] \o " (" \o a.agg_func \o ")"

\* Lines 48-49 and 59-60.
Title(a) ==
  IF a.title # NA THEN a.title[1]
  ELSE IF isna(a.value_col)
       THEN "Top " \o ToString(a.top_n) \o " " \o a.group_by_col \o " by Count"
       ELSE "Top " \o ToString(a.top_n) \o " " \o a.group_by_col \o " by "
              \o a.value_col[1] \o " (" \o a.agg_func \o ")"

\* Python truthiness of an optional string: None and "" are false.
Truthy(s) == s # NA /\ s[1] # ""

\* Line 76: ylabel if ylabel else group_by_col.
YLabel(a) == IF Truthy(a.ylabel) THEN a.ylabel[1] ELSE a.group_by_col

\* Line 63: max(6, top_n * 0.4), in tenths.
FigHeight(top_n) == Max(60, top_n * 4)

\* Lines 63-78: the chart drawn.
Draw(grouped, a) ==
  [bars |-> grouped, title |-> Title(a), xlabel |-> XLabel(a), ylabel |-> YLabel(a),
   width |-> 120, height |-> FigHeight(a.top_n)]

(* ---------------------------- bar_plot_top_n -------------------------- *)

Cells == {NA, <<1>>, <<2>>}

RowsOfLen(n) == [1..n -> [City : Cells, Sale : Cells]]

\* The logical rows: a city, a sale and the invoice number (the position).
Logical(rws) ==
  [i \in 1..Len(rws) |-> [Invoice |-> <<i>>, City |-> rws[i].City, Sale |-> rws[i].Sale]]

FlatFrame(rws) ==
  [index |-> <<>>, columns |-> <<"Invoice", "City", "Sale">>, rows |-> Logical(rws)]

CompositeFrame(rws) ==
  [index |-> <<"Invoice", "City">>, columns |-> <<"Sale">>, rows |-> Logical(rws)]

Datasets ==
  UNION {{FlatFrame(r), CompositeFrame(r)} : r \in UNION {RowsOfLen(n) : n \in 0..MaxRows}}

\* The calls made: every mode with columns the dataset has, and the calls that
\* name a column it has not.  agg_func is "sum" by default; "median_abs" is a
\* name pandas has no aggregation for.
PlotArgs ==
  [group_by_col : {"City", "Sale"}, value_col : {<<"Sale">>},
   title : {NA}, xlabel : {NA}, ylabel : {NA},
   agg_func : Recognized \cup {"median_abs"}, top_n : 1..MaxTopN]
  \cup
  [group_by_col : {"City", "Sale"}, value_col : {NA},
   title : {NA}, xlabel : {NA}, ylabel : {NA},
   agg_func : {"sum", "median_abs"}, top_n : 1..MaxTopN]
  \cup
  [group_by_col : {"Region"}, value_col : {NA, <<"Sale">>},
   title : {NA}, xlabel : {NA}, ylabel : {NA},
   agg_func : {"sum", "median_abs"}, top_n : {1}]
  \cup
  [group_by_col : {"City"}, value_col : {<<"Profit">>},
   title : {NA}, xlabel : {NA}, ylabel : {NA},
   agg_func : {"sum", "median_abs"}, top_n : {1}]

Init ==
  /\ data \in Datasets
  /\ args \in PlotArgs
  /\ pc = "call"
  /\ raised = "none"
  /\ grouped_data = <<>>
  /\ chart = NA
  /\ ret = NA

\* One call of bar_plot_top_n(data, **args).
bar_plot_top_n ==
  /\ pc = "call"
  /\ LET f == Flatten(data)
         r == Aggregate(f.result, args)
     IN  /\ data' = f.self
         /\ raised' = r.raised
         /\ grouped_data' = r.grouped
         /\ chart' = IF r.raised = "none" THEN Some(Draw(r.grouped, args)) ELSE NA
  /\ pc' = "done"
  /\ UNCHANGED <<args, ret>>

Next == bar_plot_top_n

Spec == Init /\ [][Next]_vars

(* -------------------------- chart labels ------------------------------ *)
(* The same call on a fixed small dataset, with every combination of       *)
(* labels supplied (also the empty string) or left to their defaults.      *)

Labels == {NA, <<"">>, <<"Iowa">>}

LabelArgs ==
  [group_by_col : {"City"}, value_col : {NA, <<"Sale">>},
   title : Labels, xlabel : Labels, ylabel : Labels,
   agg_func : {"sum", "mean"}, top_n : 1..MaxTopN]

InitLabels ==
  /\ data \in {FlatFrame(<<>>),
               CompositeFrame(<<[City |-> <<1>>, Sale |-> <<2>>],
                                [City |-> <<2>>, Sale |-> <<1>>]>>)}
  /\ args \in LabelArgs
  /\ pc = "call"
  /\ raised = "none"
  /\ grouped_data = <<>>
  /\ chart = NA
  /\ ret = NA

SpecLabels == InitLabels /\ [][Next]_vars

(* ------------------------ map_to_coarse_category ---------------------- *)
(* coarse_category_mapping is a dict: a sequence of entries in insertion   *)
(* order, with distinct keys, each holding a list of detailed categories.  *)

\* Python's "category in detailed_categories" on a list: an element that is
\* the same object or compares equal.
Contains(detailed_categories, category) ==
  \E i \in 1..Len(detailed_categories) : detailed_categories[i] = category

RECURSIVE ScanLast(_, _)
\* The loop without its early return: the last match wins.
ScanLast(category, items) ==
  IF items = <<>> THEN "UNKNOWN"
  ELSE LET rest == ScanLast(category, Tail(items))
       IN  IF rest # "UNKNOWN" THEN rest
           ELSE IF Contains(Head(items).detailed, category) THEN Head(items).coarse
           ELSE "UNKNOWN"

RECURSIVE Scan(_, _)
\* Lines 99-102: the loop over the mapping's items, in order.
Scan(category, items) ==
  IF items = <<>> THEN "UNKNOWN"
  ELSE IF Contains(Head(items).detailed, category) THEN Head(items).coarse
  ELSE Scan(category, Tail(items))

\* Without the pd.isna guard of line 97.
MapToCoarse_unguarded(category, coarse_category_mapping) ==
  Scan(category, coarse_category_mapping)

\* Lines 97-102.
MapToCoarse(category, coarse_category_mapping) ==
  IF isna(category) THEN "UNKNOWN" ELSE Scan(category, coarse_category_mapping)

Categories == {NA, <<"VODKA">>, <<"vodka">>, <<"RUM">>}

DetailedLists == UNION {[1..n -> Categories] : n \in 0..MaxList}

CoarseNames == {"SPIRITS", "OTHER"}

Items == [coarse : CoarseNames, detailed : DetailedLists]

Mappings ==
  {<<>>}
  \cup [1..1 -> Items]
  \cup {m \in [1..2 -> Items] : m[1].coarse # m[2].coarse}

InitCoarsen ==
  /\ data = FlatFrame(<<>>)
  /\ args \in [category : Categories, coarse_category_mapping : Mappings]
  /\ pc = "call"
  /\ raised = "none"
  /\ grouped_data = <<>>
  /\ chart = NA
  /\ ret = NA

\* One call of map_to_coarse_category(category, coarse_category_mapping).
map_to_coarse_category ==
  /\ pc = "call"
  /\ ret' = Some(MapToCoarse(args.category, args.coarse_category_mapping))
  /\ pc' = "done"
  /\ UNCHANGED <<data, args, raised, grouped_data, chart>>

SpecCoarsen == InitCoarsen /\ [][map_to_coarse_category]_vars

(* ------------------------ extract_city_from_store --------------------- *)

Whitespace == {" "}

IndexOf(s, c) == CHOOSE i \in 1..Len(s) : s[i] = c /\ \A j \in 1..(i - 1) : s[j] # c

RECURSIVE split(_, _)
\* str.split(sep): the segments between the separators.
split(s, sep) ==
  IF sep \notin Range(s) THEN <<s>>
  ELSE LET k == IndexOf(s, sep)
       IN  <<SubSeq(s, 1, k - 1)>> \o split(SubSeq(s, k + 1, Len(s)), sep)

RECURSIVE lstrip(_)
lstrip(s) == IF s # <<>> /\ Head(s) \in Whitespace THEN lstrip(Tail(s)) ELSE s

\* str.strip().
strip(s) == Reverse(lstrip(Reverse(lstrip(s))))

\* parts[1] in place of parts[-1]: the segment after the first separator.
ExtractCity_second(store_name) ==
  IF isna(store_name) THEN NA
  ELSE LET parts == split(store_name[1], "/")
       IN  IF Len(parts) > 1 THEN Some(strip(parts[2])) ELSE NA

\* Lines 119-124: None is NA, a string is <<s>>.
ExtractCity(store_name) ==
  IF isna(store_name) THEN NA
  ELSE LET parts == split(store_name[1], "/")
       IN  IF Len(parts) > 1 THEN Some(strip(parts[Len(parts)])) ELSE NA

Chars == {"x", " ", "/"}

StoreNames == {NA} \cup {Some(s) : s \in UNION {[1..n -> Chars] : n \in 0..MaxLen}}

InitExtract ==
  /\ data = FlatFrame(<<>>)
  /\ args \in [store_name : StoreNames]
  /\ pc = "call"
  /\ raised = "none"
  /\ grouped_data = <<>>
  /\ chart = NA
  /\ ret = NA

\* One call of extract_city_from_store(store_name).
extract_city_from_store ==
  /\ pc = "call"
  /\ ret' = ExtractCity(args.store_name)
  /\ pc' = "done"
  /\ UNCHANGED <<data, args, raised, grouped_data, chart>>

SpecExtract == InitExtract /\ [][extract_city_from_store]_vars

(* ============================ properties ============================== *)

Done == pc = "done"

\* The working copy the call aggregates.
WorkingCopy == Flatten(data).result

\* a >= b and a > b as floats compare: false as soon as one side is NaN.
FloatGeq(a, b) == ~isna(a) /\ ~isna(b) /\ Leq(b, a)

FloatGt(a, b) == ~isna(a) /\ ~isna(b) /\ ~Leq(a, b)

NoMissing(df, col) == \A i \in 1..Len(df.rows) : ~isna(df.rows[i][col])

GroupKeys(df, col) == {df.rows[i][col] : i \in 1..Len(df.rows)} \ {NA}

RetainedKeys == {grouped_data[i].key : i \in 1..Len(grouped_data)}

\* What one group aggregates to, whatever its rank.
ValueOfGroup(df, a, k) ==
  LET rs == SelectSeq(df.rows, LAMBDA r : r[a.group_by_col] = k)
  IN  IF isna(a.value_col) THEN <<Len(rs), 1>>
      ELSE Agg(a.agg_func, [i \in 1..Len(rs) |-> rs[i][a.value_col[1]]])

\* The arguments name columns of the working copy and, when value_col is
\* given, an aggregation pandas has.
ValidCall ==
  /\ HasColumn(WorkingCopy, args.group_by_col)
  /\ \/ isna(args.value_col)
     \/ HasColumn(WorkingCopy, args.value_col[1]) /\ args.agg_func \in Recognized

(* ------------------------------- C1 ----------------------------------- *)

\* C1 as stated: on a non-empty dataset a successful call plots at most top_n
\* groups and each aggregated value is >= the next one.
C1_AsStated ==
  (Done /\ raised = "none" /\ data.rows # <<>>) =>
    /\ Len(grouped_data) <= args.top_n
    /\ \A i \in 1..(Len(grouped_data) - 1) :
         FloatGeq(grouped_data[i].val, grouped_data[i + 1].val)

\* C1 (amended): on a non-empty dataset a successful call plots at most top_n
\* groups; the aggregated values that are not NaN are non-increasing from
\* first to last, and every group whose aggregated value is NaN comes after
\* all the groups whose value is not.
C1_TopNSortedNaNLast ==
  (Done /\ raised = "none" /\ data.rows # <<>>) =>
    /\ Len(grouped_data) <= args.top_n
    /\ \A i, j \in 1..Len(grouped_data) :
         i < j =>
           /\ (~isna(grouped_data[i].val) /\ ~isna(grouped_data[j].val))
                => Leq(grouped_data[j].val, grouped_data[i].val)
           /\ isna(grouped_data[i].val) => isna(grouped_data[j].val)

\* A mean ranking of two groups that the sort had to reorder: the larger key
\* holds the strictly larger mean and is plotted first.
C1_Witness ==
  /\ Done /\ raised = "none"
  /\ args.value_col = <<"Sale">> /\ args.agg_func = "mean"
  /\ Len(grouped_data) = 2
  /\ FloatGt(grouped_data[1].val, grouped_data[2].val)
  /\ grouped_data[1].key[1] > grouped_data[2].key[1]

(* ------------------------------- C2 ----------------------------------- *)

\* Position i of a ranking holds a count no other group of the dataset has.
Untied(full, i) == \A j \in 1..Len(full) : j # i => full[j].val # full[i].val

\* The same counts position by position, and the same group wherever the
\* count is not tied.
SameRanking(a, b, full) ==
  /\ Len(a) = Len(b)
  /\ \A i \in 1..Len(a) :
       /\ a[i].val = b[i].val
       /\ Untied(full, i) => a[i].key = b[i].key

\* The call with value_col = v and agg_func = "count", other arguments kept.
CountCall(v) ==
  Aggregate(WorkingCopy, [args EXCEPT !.value_col = Some(v), !.agg_func = "count"])

\* C2 as stated: with no missing value in group_by_col, the call without
\* value_col ranks as the call with any column as value_col and "count".
C2_AsStated ==
  (Done /\ raised = "none" /\ isna(args.value_col)
     /\ NoMissing(WorkingCopy, args.group_by_col)) =>
    \A v \in Range(WorkingCopy.columns) :
      /\ CountCall(v).raised = "none"
      /\ SameRanking(grouped_data, CountCall(v).grouped,
                     value_counts(Column(WorkingCopy, args.group_by_col)))

\* C2 (amended): with no missing value in group_by_col, the call without
\* value_col ranks as the call with "count" and any column as value_col that
\* has no missing value either.
C2_CountEquivalence ==
  (Done /\ raised = "none" /\ isna(args.value_col)
     /\ NoMissing(WorkingCopy, args.group_by_col)) =>
    \A v \in Range(WorkingCopy.columns) :
      NoMissing(WorkingCopy, v) =>
        /\ CountCall(v).raised = "none"
        /\ SameRanking(grouped_data, CountCall(v).grouped,
                       value_counts(Column(WorkingCopy, args.group_by_col)))

\* A count ranking of two groups with different counts, of a dataset without
\* missing values, in which the larger key is the more frequent one.
C2_Witness ==
  /\ Done /\ raised = "none" /\ isna(args.value_col)
  /\ \A c \in Range(WorkingCopy.columns) : NoMissing(WorkingCopy, c)
  /\ Len(grouped_data) = 2
  /\ FloatGt(grouped_data[1].val, grouped_data[2].val)
  /\ grouped_data[1].key[1] > grouped_data[2].key[1]

(* ------------------------------- C6 ----------------------------------- *)

\* C6 as stated: a call with an unrecognized agg_func fails with the
\* unsupported-aggregation failure and draws nothing, value_col given or not.
C6_AsStated ==
  (Done /\ args.agg_func \notin Recognized) =>
    raised = "AttributeError" /\ chart = NA

\* C6 (amended): a call with value_col given and an unrecognized agg_func
\* draws nothing and fails, with the unsupported-aggregation failure when
\* group_by_col and value_col are columns of the dataset; with value_col
\* omitted agg_func is not consulted, and the call draws the count chart
\* whenever group_by_col is a column.
C6_UnsupportedAggregation ==
  (Done /\ args.agg_func \notin Recognized) =>
    /\ ~isna(args.value_col) =>
         /\ chart = NA
         /\ raised # "none"
         /\ (HasColumn(WorkingCopy, args.group_by_col)
               /\ HasColumn(WorkingCopy, args.value_col[1]))
              => raised = "AttributeError"
    /\ (isna(args.value_col) /\ HasColumn(WorkingCopy, args.group_by_col)) =>
         raised = "none" /\ chart # NA

\* A call on a dataset with rows, with both columns present and an
\* unrecognized agg_func, that has failed.
C6_Witness ==
  /\ Done /\ args.agg_func \notin Recognized
  /\ args.value_col = <<"Sale">> /\ args.group_by_col = "City"
  /\ Len(data.rows) >= 2
  /\ raised = "AttributeError" /\ chart = NA

(* ------------------------------- C7 ----------------------------------- *)

\* C7: no step of a call, successful or failing, changes the caller's dataset.
C7_CallerDataUnchanged == [][data' = data]_vars

\* A finished successful call on a dataset with a composite index, which
\* still has it.
C7_Witness ==
  /\ Done /\ raised = "none" /\ chart # NA
  /\ IsMultiIndex(data) /\ Len(data.rows) >= 2
  /\ args.group_by_col = "City"

(* ------------------------------- C8 ----------------------------------- *)

\* The dataset of the same logical rows whose index parts are ordinary columns.
FlatEquivalent(d) ==
  FlatFrame([i \in 1..Len(d.rows) |-> [City |-> d.rows[i].City, Sale |-> d.rows[i].Sale]])

\* C8: a call on a dataset with a composite index ends as the same call on the
\* equivalent dataset with a simple index: the same failure, or the same
\* retained groups with the same values in the same order.
C8_IndexEquivalence ==
  (Done /\ IsMultiIndex(data)) =>
    LET other == Aggregate(Flatten(FlatEquivalent(data)).result, args)
    IN  /\ raised = other.raised
        /\ grouped_data = other.grouped

\* A successful call on a composite index that grouped by an index part and
\* retained two groups.
C8_Witness ==
  /\ Done /\ IsMultiIndex(data) /\ raised = "none"
  /\ args.group_by_col = "City" /\ args.value_col = <<"Sale">>
  /\ Len(grouped_data) = 2

(* ------------------------------- C9 ----------------------------------- *)

\* C9: a valid call raises nothing and retains exactly min(top_n, number of
\* distinct present group_by_col values) distinct groups, each with its own
\* aggregated value, and no omitted group has a value strictly greater than a
\* retained one's.
C9_ExactlyTopN ==
  (Done /\ ValidCall) =>
    /\ raised = "none" /\ chart # NA /\ chart[1].bars = grouped_data
    /\ Len(grouped_data)
         = Min(args.top_n, Cardinality(GroupKeys(WorkingCopy, args.group_by_col)))
    /\ Cardinality(RetainedKeys) = Len(grouped_data)
    /\ RetainedKeys \subseteq GroupKeys(WorkingCopy, args.group_by_col)
    /\ \A i \in 1..Len(grouped_data) :
         grouped_data[i].val = ValueOfGroup(WorkingCopy, args, grouped_data[i].key)
    /\ \A k \in GroupKeys(WorkingCopy, args.group_by_col) \ RetainedKeys :
         \A i \in 1..Len(grouped_data) :
           ~FloatGt(ValueOfGroup(WorkingCopy, args, k), grouped_data[i].val)

\* top_n = 1 on two groups: the group omitted sums to strictly less than the
\* group retained.
C9_Witness ==
  /\ Done /\ ValidCall /\ args.top_n = 1 /\ args.agg_func = "sum"
  /\ args.value_col = <<"Sale">> /\ args.group_by_col = "City"
  /\ Len(grouped_data) = 1
  /\ \E k \in GroupKeys(WorkingCopy, "City") \ RetainedKeys :
       FloatGt(grouped_data[1].val, ValueOfGroup(WorkingCopy, args, k))

(* ------------------------------- C10 ---------------------------------- *)

\* C10: the chart's title, xlabel and ylabel are the caller's whenever the
\* caller supplied them (any string, "" too), and the defaults otherwise.
C10_LabelDefaults ==
  (Done /\ chart # NA) =>
    /\ chart[1].title =
         IF args.title # NA THEN args.title[1]
         ELSE IF args.value_col = NA
         THEN "Top " \o ToString(args.top_n) \o " " \o args.group_by_col \o " by Count"
         ELSE "Top " \o ToString(args.top_n) \o " " \o args.group_by_col \o " by "
                \o args.value_col[1] \o " (" \o args.agg_func \o ")"
    /\ chart[1].xlabel =
         IF args.xlabel # NA THEN args.xlabel[1]
         ELSE IF args.value_col = NA THEN "Count"
         ELSE args.value_col[1] \o " (" \o args.agg_func \o ")"
    /\ chart[1].ylabel =
         IF args.ylabel # NA THEN args.ylabel[1] ELSE args.group_by_col

(* ------------------------------- C3 ----------------------------------- *)

\* The positions of the mapping whose detailed list holds the category.
Matches(a) ==
  {i \in 1..Len(a.coarse_category_mapping) :
     a.category \in Range(a.coarse_category_mapping[i].detailed)}

\* C3: for a present category that some detailed list holds, the call returns
\* the coarse name of the first entry, in the mapping's order, whose list
\* holds it.
C3_FirstMatchWins ==
  (Done /\ ~isna(args.category) /\ Matches(args) # {}) =>
    LET first == CHOOSE i \in Matches(args) : \A j \in Matches(args) : i <= j
    IN  ret = Some(args.coarse_category_mapping[first].coarse)

\* A category held by both lists of a two-entry mapping, mapped to the first
\* entry's name.
C3_Witness ==
  /\ Done /\ ~isna(args.category)
  /\ Matches(args) = {1, 2}
  /\ ret = Some(args.coarse_category_mapping[1].coarse)

(* ------------------------------- C4 ----------------------------------- *)

\* C4: the call returns "UNKNOWN", and raises nothing, when the category is
\* missing (whatever the mapping) and when no detailed list holds it.
C4_UnknownFallback ==
  (Done /\ (isna(args.category) \/ Matches(args) = {})) =>
    ret = Some("UNKNOWN") /\ raised = "none"

\* A missing category with a mapping whose first list holds a missing value.
C4_Witness ==
  /\ Done /\ isna(args.category)
  /\ 1 \in Matches(args)
  /\ ret = Some("UNKNOWN")

(* ------------------------------- C5 ----------------------------------- *)

HasSlash(s) == \E i \in 1..Len(s) : s[i] = "/"

\* The text after the last "/" of s.
AfterLastSlash(s) ==
  LET k == CHOOSE i \in 1..Len(s) : s[i] = "/" /\ \A j \in (i + 1)..Len(s) : s[j] # "/"
  IN  SubSeq(s, k + 1, Len(s))

\* u is t without its leading and trailing whitespace.
Trimmed(t, u) ==
  \E a, b \in 0..Len(t) :
    /\ a + b <= Len(t)
    /\ u = SubSeq(t, a + 1, Len(t) - b)
    /\ \A i \in 1..a : t[i] \in Whitespace
    /\ \A i \in (Len(t) - b + 1)..Len(t) : t[i] \in Whitespace
    /\ u = <<>> \/ (u[1] \notin Whitespace /\ u[Len(u)] \notin Whitespace)

\* C5: the call returns None exactly when store_name is missing or holds no
\* "/"; otherwise it returns the text after the last "/" without its leading
\* and trailing whitespace, which is never the original string.
C5_CityAfterLastSlash ==
  Done =>
    /\ (ret = NA) <=> (isna(args.store_name) \/ ~HasSlash(args.store_name[1]))
    /\ (~isna(args.store_name) /\ HasSlash(args.store_name[1])) =>
         /\ ret # NA
         /\ Trimmed(AfterLastSlash(args.store_name[1]), ret[1])
         /\ ret[1] # args.store_name[1]

\* A store name with two "/" and a blank before its city.
C5_Witness ==
  /\ Done /\ ~isna(args.store_name)
  /\ Cardinality({i \in 1..Len(args.store_name[1]) : args.store_name[1][i] = "/"}) = 2
  /\ ret = Some(<<"x">>)
  /\ Len(AfterLastSlash(args.store_name[1])) = 2

====
